---- MODULE Spec2Model ----
(***************************************************************************)
(* commandflags: nested command/flag dispatch (CommandType.ProcessArgs)    *)
(* and its help renderers (autoHelp in commandflags.go, renderHelp in the  *)
(* revision that carries ShortDesc/LongDesc/Help).                         *)
(*                                                                         *)
(* A call of ProcessArgs is modelled frame by frame: `stack` is the Go     *)
(* call stack of ProcessArgs activations, `pc` the position of the         *)
(* innermost one.  Flag-sets are heap objects (pointers to flag.FlagSet)   *)
(* that nodes hold; several nodes may hold the same one, or a nil pointer.  *)
(***************************************************************************)
EXTENDS Integers, Sequences, FiniteSets, TLC

\* longest argument vector handed to a top-level ProcessArgs call
MaxArgs == 4

\* package variables of the help renderer
HelpIndent == 2
DefaultWidth == 80

\* the two revisions of the package in the repository
Versions == {"commandflags.go", "part_001"}

Nil == "nil"

-----------------------------------------------------------------------------
(* The command tree, built once before any call (as the example's init()). *)

\* heap objects of type flag.FlagSet
FlagSets == {"F1", "F2", "F3"}

\* definitions registered in each flag-set: kind, default, usage
FlagDefs ==
  [F1 |-> [verbose |-> [kind |-> "bool", def |-> FALSE, usage |-> "Enable verbose output"]],
   F2 |-> [verbose |-> [kind |-> "bool", def |-> FALSE, usage |-> "Enable verbose output"],
           m       |-> [kind |-> "int",  def |-> 32,    usage |-> "memory share (MB)"]],
   F3 |-> <<>>]

\* name given to flag.NewFlagSet when each flag-set was created
FlagSetInitName == [F1 |-> "flags", F2 |-> "deploy", F3 |-> "status"]

\* the CommandType values; SubCommands maps a key to a node
Tree ==
  [root    |-> [Name |-> "root", ShortDesc |-> "", LongDesc |-> "demo tree",
                Flags |-> "F1",
                SubCommands |-> ("deploy" :> "deploy") @@ ("up" :> "update")],
   deploy  |-> [Name |-> "deploy", ShortDesc |-> "deploy an app", LongDesc |-> "",
                Flags |-> "F2",
                SubCommands |-> ("status" :> "status") @@ ("show" :> "show")],
   update  |-> [Name |-> "update", ShortDesc |-> "update an app", LongDesc |-> "",
                Flags |-> "F1", SubCommands |-> <<>>],
   status  |-> [Name |-> "status", ShortDesc |-> "status of deployments", LongDesc |-> "",
                Flags |-> "F3", SubCommands |-> <<>>],
   show    |-> [Name |-> "show", ShortDesc |-> "", LongDesc |-> "",
                Flags |-> Nil, SubCommands |-> <<>>]]

Nodes == DOMAIN Tree
Root == "root"

-----------------------------------------------------------------------------
(* The flag primitive: flag.FlagSet.Parse as ProcessArgs calls it.         *)

\* argument tokens the callers pass
Tokens == {"--verbose", "-verbose=false", "-m", "7", "deploy", "status", "up", "show"}

\* what parseOne reads off a token: whether it has flag syntax (at least two
\* characters, the first a dash), whether it is the "--" terminator, the flag
\* name after the dashes, and the text after an "=" sign
Lex(s) ==
  CASE s = "--verbose"      -> [dash |-> TRUE, term |-> FALSE, name |-> "verbose", hasValue |-> FALSE, value |-> ""]
    [] s = "-verbose=false" -> [dash |-> TRUE, term |-> FALSE, name |-> "verbose", hasValue |-> TRUE,  value |-> "false"]
    [] s = "-m"             -> [dash |-> TRUE, term |-> FALSE, name |-> "m", hasValue |-> FALSE, value |-> ""]
    [] s = "--"             -> [dash |-> TRUE, term |-> TRUE,  name |-> "", hasValue |-> FALSE, value |-> ""]
    [] OTHER                -> [dash |-> FALSE, term |-> FALSE, name |-> "", hasValue |-> FALSE, value |-> ""]

\* boolValue.Set: strconv.ParseBool
ParseBool(v) ==
  CASE v = "true"  -> [ok |-> TRUE, val |-> TRUE]
    [] v = "false" -> [ok |-> TRUE, val |-> FALSE]
    [] OTHER       -> [ok |-> FALSE, val |-> FALSE]

\* intValue.Set: strconv.ParseInt
ParseInt(v) ==
  CASE v = "7" -> [ok |-> TRUE, val |-> 7]
    [] OTHER   -> [ok |-> FALSE, val |-> 0]

NoErr == ""

\* one round of FlagSet.parseOne on flag-set F holding values vals
parseOne(F, vals, args) ==
  IF args = <<>> THEN [seen |-> FALSE, err |-> NoErr, vals |-> vals, args |-> args]
  ELSE
    LET lx   == Lex(Head(args))
        rest == Tail(args)
        fail(msg) == [seen |-> FALSE, err |-> msg, vals |-> vals, args |-> rest]
    IN
    IF ~lx.dash THEN [seen |-> FALSE, err |-> NoErr, vals |-> vals, args |-> args]
    ELSE IF lx.term THEN [seen |-> FALSE, err |-> NoErr, vals |-> vals, args |-> rest]
    ELSE IF lx.name \notin DOMAIN FlagDefs[F]
      THEN IF lx.name \in {"help", "h"}
             THEN fail("flag: help requested")
             ELSE fail("flag provided but not defined: -" \o lx.name)
    ELSE IF FlagDefs[F][lx.name].kind = "bool"
      THEN IF lx.hasValue
             THEN LET b == ParseBool(lx.value) IN
                  IF b.ok
                    THEN [seen |-> TRUE, err |-> NoErr,
                          vals |-> [vals EXCEPT ![lx.name] = b.val], args |-> rest]
                    ELSE fail("invalid boolean value for -" \o lx.name)
             ELSE [seen |-> TRUE, err |-> NoErr,
                   vals |-> [vals EXCEPT ![lx.name] = TRUE], args |-> rest]
    ELSE
      \* a non-boolean flag without "=" takes the next token as its value
      LET hasValue == lx.hasValue \/ rest # <<>>
          value    == IF lx.hasValue THEN lx.value
                      ELSE IF rest # <<>> THEN Head(rest) ELSE ""
          rest2    == IF lx.hasValue \/ rest = <<>> THEN rest ELSE Tail(rest)
          i        == ParseInt(value)
      IN
      IF ~hasValue THEN fail("flag needs an argument: -" \o lx.name)
      ELSE IF i.ok
        THEN [seen |-> TRUE, err |-> NoErr,
              vals |-> [vals EXCEPT ![lx.name] = i.val], args |-> rest2]
        ELSE [seen |-> FALSE, err |-> "invalid value for flag -" \o lx.name,
              vals |-> vals, args |-> rest2]

\* FlagSet.Parse with ContinueOnError: parseOne until it reports no flag or
\* an error; the values set before an error stay set.  Result: the error
\* (NoErr when none), the values, and FlagSet.Args()
RECURSIVE Parse(_, _, _)
Parse(F, vals, args) ==
  LET r == parseOne(F, vals, args) IN
  IF r.seen THEN Parse(F, r.vals, r.args)
  ELSE [err |-> r.err, vals |-> r.vals, args |-> r.args]

-----------------------------------------------------------------------------
(* Help text.  A rendered help is kept as its parts in output order; the   *)
(* wrapped text of a description is a function of the description and of   *)
(* the column it is wrapped to.                                            *)

\* the orders in which a range over a Go map can yield the keys of m
RangeOrders(m) ==
  LET keys == DOMAIN m
      n    == Cardinality(keys)
  IN { s \in [1..n -> keys] : \A i, j \in 1..n : i # j => s[i] # s[j] }

\* lexicographical order of the flag names in use
FlagNameOrder == <<"m", "verbose">>

\* flag.FlagSet.VisitAll / PrintDefaults: the flags of F sorted by name
VisitAll(F) == SelectSeq(FlagNameOrder, LAMBDA a : a \in DOMAIN FlagDefs[F])

\* the type label renderHelp derives from the flag's value type
Label(kind) ==
  CASE kind = "bool"   -> ""
    [] kind = "uint"   -> "UINT"
    [] kind = "int"    -> "INT"
    [] kind = "string" -> "STRING"
    [] kind = "float"  -> "FLOAT"
    [] OTHER           -> "VALUE"

Max(S) == IF S = {} THEN 0 ELSE CHOOSE a \in S : \A b \in S : b <= a

\* renderHelp(width) of node n when the range over n.SubCommands yields the
\* keys in the order `order`
renderHelp(n, width, order) ==
  LET c     == Tree[n]
      F     == c.Flags
      names == VisitAll(F)
      maxFlagWidth   == Max({Len(a) + Len(Label(FlagDefs[F][a].kind)) : a \in DOMAIN FlagDefs[F]})
      flagColWidth   == maxFlagWidth + 6
      maxSubcmdWidth == Max({Len(Tree[c.SubCommands[k]].Name) : k \in DOMAIN c.SubCommands})
  IN
  [header |-> "Command: " \o c.Name \o "\n",
   desc   |-> IF c.LongDesc # "" THEN <<c.LongDesc, width - HelpIndent>>
              ELSE IF c.ShortDesc # "" THEN <<c.ShortDesc, width - HelpIndent>>
              ELSE <<>>,
   flags  |-> [i \in 1..Len(names) |->
                 [label |-> "-" \o names[i] \o " " \o Label(FlagDefs[F][names[i]].kind),
                  col   |-> flagColWidth,
                  usage |-> <<FlagDefs[F][names[i]].usage, width - flagColWidth>>]],
   subs   |-> [i \in 1..Len(order) |->
                 [label |-> Tree[c.SubCommands[order[i]]].Name,
                  col   |-> HelpIndent + maxSubcmdWidth + 2,
                  usage |-> <<Tree[c.SubCommands[order[i]]].ShortDesc,
                              width - (HelpIndent + maxSubcmdWidth + 2)>>]]]

\* autoHelp() of node n (commandflags.go): the name, PrintDefaults of the
\* flag-set, and the keys of SubCommands as the range yields them
autoHelp(n, order) ==
  LET c     == Tree[n]
      F     == c.Flags
      names == VisitAll(F)
  IN
  [header |-> c.Name \o " OPTIONS COMMAND\nOPTIONS:\n",
   desc   |-> <<>>,
   flags  |-> [i \in 1..Len(names) |->
                 [label |-> "-" \o names[i],
                  col   |-> 0,
                  usage |-> <<FlagDefs[F][names[i]].usage, 0>>]],
   subs   |-> [i \in 1..Len(order) |->
                 [label |-> order[i] \o " ", col |-> 0, usage |-> <<>>]]]

\* the help a revision embeds in its errors
Help(v, n, order) ==
  IF v = "part_001" THEN renderHelp(n, DefaultWidth, order) ELSE autoHelp(n, order)

NoHelp == [header |-> "", desc |-> <<>>, flags |-> <<>>, subs |-> <<>>]

-----------------------------------------------------------------------------
(* Errors: UsageError{e, c, a} wrapped in one of three types.              *)

NilError == [kind |-> Nil, e |-> [text |-> "", help |-> NoHelp], c |-> Nil, a |-> <<>>]

\* FlagError: the older revision keeps the parser's message, the newer one
\* replaces it by renderHelp
FlagError(v, n, args, parseErr, order) ==
  [kind |-> "FlagError",
   e    |-> IF v = "part_001"
              THEN [text |-> "", help |-> renderHelp(n, DefaultWidth, order)]
              ELSE [text |-> parseErr, help |-> NoHelp],
   c    |-> n,
   a    |-> args]

MissingCommandError(v, n, args, order) ==
  [kind |-> "MissingCommandError",
   e    |-> [text |-> "Missing COMMAND:\n", help |-> Help(v, n, order)],
   c    |-> n,
   a    |-> args]

InvalidCommandError(v, n, args, head, order) ==
  [kind |-> "InvalidCommandError",
   e    |-> [text |-> "Invalid COMMAND: " \o head \o "\n", help |-> Help(v, n, order)],
   c    |-> n,
   a    |-> args]

-----------------------------------------------------------------------------
(* State.                                                                  *)

VARIABLES
  version,    \* which revision of the package is compiled in
  flagVal,    \* flagVal[F][name]: current value of each flag of flag-set F
  fsName,     \* fsName[F]: the name field of flag-set F (set by FlagSet.Init)
  pc,         \* position of the innermost ProcessArgs activation
  stack,      \* the ProcessArgs activations: <<[node, args], ...>>, innermost last
  remaining,  \* c.Flags.Args() of the innermost activation, once parsed
  ret,        \* the (path, error) pair an activation has just returned
  visited,    \* history: the activations entered by the current call, in order
  pre,        \* history: flagVal when the current top-level call started
  render      \* two successive renderings of one node's help: [pc, node, width, first, second]

vars == <<version, flagVal, fsName, pc, stack, remaining, ret, visited, pre, render>>

NoRet == [path |-> <<>>, err |-> NilError]

RenderIdle == [pc |-> "idle", node |-> Nil, width |-> 0, first |-> NoHelp, second |-> NoHelp]

\* all argument vectors of at most MaxArgs tokens
ArgVectors == UNION { [1..k -> Tokens] : k \in 0..MaxArgs }

Top == stack[Len(stack)]
Pop == SubSeq(stack, 1, Len(stack) - 1)

\* where control goes when the innermost activation returns
AfterReturn == IF Len(stack) = 1 THEN "done" ELSE "return"

Init ==
  /\ version \in Versions
  /\ flagVal = [F \in FlagSets |-> [a \in DOMAIN FlagDefs[F] |-> FlagDefs[F][a].def]]
  /\ fsName = FlagSetInitName
  /\ pc = "idle"
  /\ stack = <<>>
  /\ remaining = <<>>
  /\ ret = NoRet
  /\ visited = <<>>
  /\ pre = flagVal
  /\ render = RenderIdle

\* the caller invokes ProcessArgs on the root; flag values persist between calls
Call ==
  /\ pc = "idle"
  /\ \E args \in ArgVectors : stack' = <<[node |-> Root, args |-> args]>>
  /\ pc' = "enter"
  /\ remaining' = <<>>
  /\ ret' = NoRet
  /\ visited' = <<>>
  /\ pre' = flagVal
  /\ UNCHANGED <<version, flagVal, fsName, render>>

\* c.Flags is a nil pointer: Flags.Init (Flags.Parse in the older revision)
\* dereferences it and the call panics
NilFlagsPanic ==
  /\ pc = "enter"
  /\ Tree[Top.node].Flags = Nil
  /\ pc' = "panicked"
  /\ visited' = Append(visited, Top)
  /\ UNCHANGED <<version, flagVal, fsName, stack, remaining, ret, pre, render>>

\* FlagSet.Init(c.Name, ContinueOnError) of the newer revision
FlagsInit(n) ==
  IF version = "part_001" THEN [fsName EXCEPT ![Tree[n].Flags] = Tree[n].Name] ELSE fsName

\* Flags.Parse(args) fails: return [c.Name] and a FlagError
FlagParseFail ==
  /\ pc = "enter"
  /\ Tree[Top.node].Flags # Nil
  /\ LET n == Top.node
         F == Tree[n].Flags
         r == Parse(F, flagVal[F], Top.args)
     IN /\ r.err # NoErr
        /\ fsName' = FlagsInit(n)
        /\ flagVal' = [flagVal EXCEPT ![F] = r.vals]
        /\ \E order \in RangeOrders(Tree[n].SubCommands) :
             ret' = [path |-> <<Tree[n].Name>>,
                     err  |-> FlagError(version, n, Top.args, r.err, order)]
        /\ visited' = Append(visited, Top)
        /\ stack' = Pop
        /\ pc' = AfterReturn
        /\ UNCHANGED <<version, remaining, pre, render>>

\* variant: a parsed flag is written to every flag-set that registers a
\* flag of that name (flags inherited down and up the tree)
FlagParseOk_Inherited ==
  /\ pc = "enter"
  /\ Tree[Top.node].Flags # Nil
  /\ LET n == Top.node
         F == Tree[n].Flags
         r == Parse(F, flagVal[F], Top.args)
     IN /\ r.err = NoErr
        /\ fsName' = FlagsInit(n)
        /\ flagVal' = [G \in FlagSets |->
                         [a \in DOMAIN FlagDefs[G] |->
                            IF a \in DOMAIN r.vals THEN r.vals[a] ELSE flagVal[G][a]]]
        /\ remaining' = r.args
        /\ visited' = Append(visited, Top)
        /\ pc' = "dispatch"
        /\ UNCHANGED <<version, stack, ret, pre, render>>

\* Flags.Parse(args) succeeds: remaining := c.Flags.Args()
FlagParseOk ==
  /\ pc = "enter"
  /\ Tree[Top.node].Flags # Nil
  /\ LET n == Top.node
         F == Tree[n].Flags
         r == Parse(F, flagVal[F], Top.args)
     IN /\ r.err = NoErr
        /\ fsName' = FlagsInit(n)
        /\ flagVal' = [flagVal EXCEPT ![F] = r.vals]
        /\ remaining' = r.args
        /\ visited' = Append(visited, Top)
        /\ pc' = "dispatch"
        /\ UNCHANGED <<version, stack, ret, pre, render>>

\* variant: the path records the token that selected the leaf, not its Name
Leaf_PathByKey ==
  /\ pc = "dispatch"
  /\ DOMAIN Tree[Top.node].SubCommands = {}
  /\ LET parent == stack[Len(stack) - 1]
         key == IF Len(stack) = 1 THEN Tree[Top.node].Name
                ELSE parent.args[Len(parent.args) - Len(Top.args)]
     IN ret' = [path |-> <<key>> \o remaining, err |-> NilError]
  /\ stack' = Pop
  /\ pc' = AfterReturn
  /\ remaining' = <<>>
  /\ UNCHANGED <<version, flagVal, fsName, visited, pre, render>>

\* len(c.SubCommands) == 0: return [c.Name] ++ remaining, nil
Leaf ==
  /\ pc = "dispatch"
  /\ DOMAIN Tree[Top.node].SubCommands = {}
  /\ ret' = [path |-> <<Tree[Top.node].Name>> \o remaining, err |-> NilError]
  /\ stack' = Pop
  /\ pc' = AfterReturn
  /\ remaining' = <<>>
  /\ UNCHANGED <<version, flagVal, fsName, visited, pre, render>>

\* variant: a node with sub-commands and nothing left is taken as a leaf
MissingCommand_AsLeaf ==
  /\ pc = "dispatch"
  /\ DOMAIN Tree[Top.node].SubCommands # {}
  /\ remaining = <<>>
  /\ ret' = [path |-> <<Tree[Top.node].Name>>, err |-> NilError]
  /\ stack' = Pop
  /\ pc' = AfterReturn
  /\ remaining' = <<>>
  /\ UNCHANGED <<version, flagVal, fsName, visited, pre, render>>

\* sub-commands exist but len(remaining) == 0
MissingCommand ==
  /\ pc = "dispatch"
  /\ DOMAIN Tree[Top.node].SubCommands # {}
  /\ remaining = <<>>
  /\ \E order \in RangeOrders(Tree[Top.node].SubCommands) :
       ret' = [path |-> <<Tree[Top.node].Name>>,
               err  |-> MissingCommandError(version, Top.node, Top.args, order)]
  /\ stack' = Pop
  /\ pc' = AfterReturn
  /\ remaining' = <<>>
  /\ UNCHANGED <<version, flagVal, fsName, visited, pre, render>>

\* variant: the message does not echo the offending token
InvalidCommand_TokenNotEchoed ==
  /\ pc = "dispatch"
  /\ DOMAIN Tree[Top.node].SubCommands # {}
  /\ remaining # <<>>
  /\ Head(remaining) \notin DOMAIN Tree[Top.node].SubCommands
  /\ \E order \in RangeOrders(Tree[Top.node].SubCommands) :
       ret' = [path |-> <<Tree[Top.node].Name>>,
               err  |-> InvalidCommandError(version, Top.node, Top.args, "", order)]
  /\ stack' = Pop
  /\ pc' = AfterReturn
  /\ remaining' = <<>>
  /\ UNCHANGED <<version, flagVal, fsName, visited, pre, render>>

\* remaining[0] is not a key of c.SubCommands
InvalidCommand ==
  /\ pc = "dispatch"
  /\ DOMAIN Tree[Top.node].SubCommands # {}
  /\ remaining # <<>>
  /\ Head(remaining) \notin DOMAIN Tree[Top.node].SubCommands
  /\ \E order \in RangeOrders(Tree[Top.node].SubCommands) :
       ret' = [path |-> <<Tree[Top.node].Name>>,
               err  |-> InvalidCommandError(version, Top.node, Top.args, Head(remaining), order)]
  /\ stack' = Pop
  /\ pc' = AfterReturn
  /\ remaining' = <<>>
  /\ UNCHANGED <<version, flagVal, fsName, visited, pre, render>>

\* variant: the child is handed the parent's whole argument slice, so the
\* parent's flag prefix is parsed again at the child's level
Descend_WholeArgs ==
  /\ pc = "dispatch"
  /\ DOMAIN Tree[Top.node].SubCommands # {}
  /\ remaining # <<>>
  /\ Head(remaining) \in DOMAIN Tree[Top.node].SubCommands
  /\ stack' = Append(stack, [node |-> Tree[Top.node].SubCommands[Head(remaining)],
                             args |-> SubSeq(Top.args, 1, Len(Top.args) - Len(remaining))
                                      \o Tail(remaining)])
  /\ pc' = "enter"
  /\ remaining' = <<>>
  /\ UNCHANGED <<version, flagVal, fsName, ret, visited, pre, render>>

\* sc := c.SubCommands[remaining[0]]; sc.ProcessArgs(remaining[1:])
Descend ==
  /\ pc = "dispatch"
  /\ DOMAIN Tree[Top.node].SubCommands # {}
  /\ remaining # <<>>
  /\ Head(remaining) \in DOMAIN Tree[Top.node].SubCommands
  /\ stack' = Append(stack, [node |-> Tree[Top.node].SubCommands[Head(remaining)],
                             args |-> Tail(remaining)])
  /\ pc' = "enter"
  /\ remaining' = <<>>
  /\ UNCHANGED <<version, flagVal, fsName, ret, visited, pre, render>>

\* variant: the caller re-wraps the error as its own
Return_ErrorRewrapped ==
  /\ pc = "return"
  /\ ret' = [path |-> <<Tree[Top.node].Name>> \o ret.path,
             err  |-> IF ret.err.kind = Nil THEN ret.err
                      ELSE [ret.err EXCEPT !.c = Top.node, !.a = Top.args]]
  /\ stack' = Pop
  /\ pc' = AfterReturn
  /\ UNCHANGED <<version, flagVal, fsName, remaining, visited, pre, render>>

\* the recursive call came back with (cp, err): return [c.Name] ++ cp, err
Return ==
  /\ pc = "return"
  /\ ret' = [path |-> <<Tree[Top.node].Name>> \o ret.path, err |-> ret.err]
  /\ stack' = Pop
  /\ pc' = AfterReturn
  /\ UNCHANGED <<version, flagVal, fsName, remaining, visited, pre, render>>

\* the caller has taken the result (or recovered from the panic); the
\* flag-sets keep their values for the next call
Finish ==
  /\ pc \in {"done", "panicked"}
  /\ pc' = "idle"
  /\ stack' = <<>>
  /\ remaining' = <<>>
  /\ ret' = NoRet
  /\ visited' = <<>>
  /\ pre' = flagVal
  /\ UNCHANGED <<version, flagVal, fsName, render>>

Next ==
  \/ Call
  \/ NilFlagsPanic
  \/ FlagParseFail
  \/ FlagParseOk
  \/ Leaf
  \/ MissingCommand
  \/ InvalidCommand
  \/ Descend
  \/ Return
  \/ Finish

Spec == Init /\ [][Next]_vars

-----------------------------------------------------------------------------
(* Rendering a node's help twice in a row, with no call of ProcessArgs in  *)
(* between.                                                                *)

RenderWidths == {40, DefaultWidth}

\* every assignment of values to the registered flags: a boolean flag is
\* true or false, the integer flag holds its default or the parsed 7
Stores ==
  { [F \in FlagSets |->
       [a \in DOMAIN FlagDefs[F] |->
          IF FlagDefs[F][a].kind = "bool" THEN b[F][a]
          ELSE IF b[F][a] THEN ParseInt("7").val ELSE FlagDefs[F][a].def]] :
    b \in [FlagSets -> [{"m", "verbose"} -> BOOLEAN]] }

InitRender ==
  /\ version \in Versions
  /\ flagVal \in Stores
  /\ fsName = FlagSetInitName
  /\ pc = "idle"
  /\ stack = <<>>
  /\ remaining = <<>>
  /\ ret = NoRet
  /\ visited = <<>>
  /\ pre = flagVal
  /\ render = RenderIdle

\* the help text of node n at the given width, as the compiled revision renders it
Rendered(n, width, order) ==
  IF version = "part_001" THEN renderHelp(n, width, order) ELSE autoHelp(n, order)

RenderFirst ==
  /\ render.pc = "idle"
  /\ \E n \in Nodes, w \in RenderWidths :
       /\ Tree[n].Flags # Nil
       /\ \E order \in RangeOrders(Tree[n].SubCommands) :
            render' = [pc |-> "first", node |-> n, width |-> w,
                       first |-> Rendered(n, w, order), second |-> NoHelp]
  /\ UNCHANGED <<version, flagVal, fsName, pc, stack, remaining, ret, visited, pre>>

\* c.Flags.VisitAll (PrintDefaults) on a nil flag-set
RenderNilPanic ==
  /\ render.pc = "idle"
  /\ \E n \in Nodes, w \in RenderWidths :
       /\ Tree[n].Flags = Nil
       /\ render' = [pc |-> "panicked", node |-> n, width |-> w,
                     first |-> NoHelp, second |-> NoHelp]
  /\ UNCHANGED <<version, flagVal, fsName, pc, stack, remaining, ret, visited, pre>>

RenderSecond ==
  /\ render.pc = "first"
  /\ \E order \in RangeOrders(Tree[render.node].SubCommands) :
       render' = [render EXCEPT !.pc = "second",
                                !.second = Rendered(render.node, render.width, order)]
  /\ UNCHANGED <<version, flagVal, fsName, pc, stack, remaining, ret, visited, pre>>

NextRender == RenderFirst \/ RenderNilPanic \/ RenderSecond

SpecRender == InitRender /\ [][NextRender]_vars

-----------------------------------------------------------------------------
(* Vocabulary of the properties.                                           *)

IsLeaf(n) == DOMAIN Tree[n].SubCommands = {}

Last(s) == s[Len(s)]

\* the Names of the activations i..Len(vis) of vis
NamesFrom(vis, i) == [j \in 1..(Len(vis) - i + 1) |-> Tree[vis[j + i - 1].node].Name]

\* the innermost activation has just returned (to its caller or to the top)
JustReturned == pc \in {"return", "done"} /\ Len(stack) = Len(visited) - 1

\* the helps node n can render in the compiled revision
Helps(n) == { Help(version, n, o) : o \in RangeOrders(Tree[n].SubCommands) }

\* the token that selected the i-th visited node (i >= 2): the head of what
\* its parent had left after flag parsing
SelectingToken(vis, i) == vis[i - 1].args[Len(vis[i - 1].args) - Len(vis[i].args)]

\* the assignments <<name, value>> the flag prefix of args makes in flag-set F
RECURSIVE Assigned(_, _, _)
Assigned(F, vals, args) ==
  LET r == parseOne(F, vals, args) IN
  IF r.seen
    THEN <<[name |-> Lex(Head(args)).name, val |-> r.vals[Lex(Head(args)).name]]>>
         \o Assigned(F, r.vals, r.args)
    ELSE <<>>

\* the assignments of every visited level that holds flag-set F, in path order
RECURSIVE AssignedOnPath(_, _, _)
AssignedOnPath(F, vis, i) ==
  IF i > Len(vis) THEN <<>>
  ELSE (IF Tree[vis[i].node].Flags = F THEN Assigned(F, pre[F], vis[i].args) ELSE <<>>)
       \o AssignedOnPath(F, vis, i + 1)

\* the value the last assignment of flag a in asg gives, dflt when there is none
LastValue(asg, a, dflt) ==
  LET idx == { i \in 1..Len(asg) : asg[i].name = a } IN
  IF idx = {} THEN dflt ELSE asg[Max(idx)].val

TypeOK ==
  /\ version \in Versions
  /\ pc \in {"idle", "enter", "dispatch", "return", "done", "panicked"}
  /\ \A F \in FlagSets : DOMAIN flagVal[F] = DOMAIN FlagDefs[F]

-----------------------------------------------------------------------------
(* Properties.                                                             *)

\* C1: an activation on a leaf, also a leaf that was given no flag-set, whose
\* flag prefix parses without error never fails: it returns a nil error and
\* the path [Name] followed by the leftover positional tokens in order.
C1_LeafReturnsNameAndLeftovers ==
  (visited # <<>> /\ IsLeaf(Last(visited).node)) =>
    LET n == Last(visited).node
        F == Tree[n].Flags
        args == Last(visited).args
        \* with no flag-set there is no flag to parse: all tokens are left over
        r == IF F = Nil THEN [err |-> NoErr, args |-> args]
             ELSE [err |-> Parse(F, flagVal[F], args).err,
                   args |-> Parse(F, flagVal[F], args).args]
    IN r.err = NoErr =>
         /\ pc # "panicked"
         /\ JustReturned =>
              ret = [path |-> <<Tree[n].Name>> \o r.args, err |-> NilError]

\* C2: while an error travels up, the path is the Names of the nodes from
\* the activation that is returning down to the failing node, nothing else;
\* the error carries the failing node and the arguments of its level, and no
\* ancestor changes it.  At the top the path is the Names of all visited.
C2_ErrorPathAndErrorPreserved ==
  [][ (pc' \in {"return", "done"} /\ ret'.err.kind # Nil) =>
        /\ ret'.path = NamesFrom(visited', Len(stack') + 1)
        /\ ret'.err.c = Last(visited').node
        /\ ret'.err.a = Last(visited').args
        /\ pc = "return" => ret'.err = ret.err
        /\ pc' = "done" => ret'.path = NamesFrom(visited', 1) ]_vars

C2_Witness ==
  /\ pc = "done"
  /\ ret.err.kind = "InvalidCommandError"
  /\ Len(visited) = 2
  /\ ret.path = <<"root", "deploy">>

\* C3: a node with sub-commands and no positional token left never returns
\* success: its next step returns [Name] and a MissingCommandError with the
\* message "Missing COMMAND:\n" + the node's help, referring to that node.
C3_MissingCommand ==
  [][ (pc = "dispatch" /\ ~IsLeaf(Top.node) /\ remaining = <<>>) =>
        /\ pc' \in {"return", "done"}
        /\ stack' = Pop
        /\ ret'.path = <<Tree[Top.node].Name>>
        /\ ret'.err.kind = "MissingCommandError"
        /\ ret'.err.e.text = "Missing COMMAND:\n"
        /\ ret'.err.e.help \in Helps(Top.node)
        /\ ret'.err.c = Top.node ]_vars

C3_Witness ==
  /\ pc = "return"
  /\ JustReturned
  /\ ret.err.kind = "MissingCommandError"
  /\ ret.err.c = "deploy"
  /\ ret.path = <<"deploy">>

\* C4: a node with sub-commands whose first positional token is not a key
\* returns [Name] and an InvalidCommandError with the message
\* "Invalid COMMAND: " + head + "\n" + the node's help; no child is entered,
\* and once an error is travelling up no other child is entered either.
C4_InvalidCommand ==
  [][ /\ (pc = "dispatch" /\ ~IsLeaf(Top.node) /\ remaining # <<>>
          /\ Head(remaining) \notin DOMAIN Tree[Top.node].SubCommands) =>
            /\ pc' \in {"return", "done"}
            /\ stack' = Pop
            /\ visited' = visited
            /\ flagVal' = flagVal
            /\ ret'.path = <<Tree[Top.node].Name>>
            /\ ret'.err.kind = "InvalidCommandError"
            /\ ret'.err.e.text = "Invalid COMMAND: " \o Head(remaining) \o "\n"
            /\ ret'.err.e.help \in Helps(Top.node)
            /\ ret'.err.c = Top.node
      /\ pc = "return" => (pc' \in {"return", "done"} /\ visited' = visited) ]_vars

C4_Witness ==
  /\ pc = "return"
  /\ JustReturned
  /\ ret.err.kind = "InvalidCommandError"
  /\ ret.err.c = "deploy"
  /\ ret.err.e.text = "Invalid COMMAND: up\n"

\* C5: when the flag primitive rejects a level's tokens, the activation
\* returns [Name] and a FlagError carrying the node, the arguments passed to
\* that level, and the node's rendered help as its whole message; no
\* sub-command is looked up.
C5_FlagErrorCarriesHelp ==
  [][ (pc = "enter" /\ Tree[Top.node].Flags # Nil
       /\ Parse(Tree[Top.node].Flags, flagVal[Tree[Top.node].Flags], Top.args).err # NoErr) =>
        /\ pc' \in {"return", "done"}
        /\ stack' = Pop
        /\ ret'.path = <<Tree[Top.node].Name>>
        /\ ret'.err.kind = "FlagError"
        /\ ret'.err.c = Top.node
        /\ ret'.err.a = Top.args
        /\ ret'.err.e.text = ""
        /\ ret'.err.e.help \in Helps(Top.node) ]_vars

\* the flag-sets held by the nodes of vis
FlagSetsOf(vis) == { Tree[vis[i].node].Flags : i \in 1..Len(vis) } \ {Nil}

\* C6 as stated: after a call, the flags of every node that was not visited
\* hold the values they held before the call.
C6_UnvisitedNodesUntouched ==
  pc \in {"done", "panicked"} =>
    \A n \in Nodes \ { visited[i].node : i \in 1..Len(visited) } :
      Tree[n].Flags # Nil => flagVal[Tree[n].Flags] = pre[Tree[n].Flags]

\* C6 amended: at every point of a call, a flag-set that no visited node
\* holds has the values it had before the call.
C6_UnvisitedFlagSetsUntouched ==
  \A F \in FlagSets \ FlagSetsOf(visited) : flagVal[F] = pre[F]

C6_Witness ==
  /\ pc = "done"
  /\ { visited[i].node : i \in 1..Len(visited) } = {"root", "update"}
  /\ flagVal["F1"] # pre["F1"]
  /\ pre["F2"].verbose
  /\ flagVal["F2"] = pre["F2"]

\* C7 as stated: after a successful call, at every visited node each flag
\* named in the node's own flag prefix holds the value given there, and a
\* flag given at an ancestor's level but not at the node's own level has not
\* been applied to the node: it holds what it held before the call.
C7_EachLevelReadsBackItsOwnPrefix ==
  (pc = "done" /\ ret.err.kind = Nil) =>
    \A i \in 1..Len(visited) :
      LET F == Tree[visited[i].node].Flags
          own == Assigned(F, pre[F], visited[i].args)
          named(asg) == { asg[x].name : x \in 1..Len(asg) }
          above == UNION { named(Assigned(Tree[visited[j].node].Flags,
                                          pre[Tree[visited[j].node].Flags],
                                          visited[j].args)) : j \in 1..(i - 1) }
      IN \A a \in DOMAIN FlagDefs[F] :
           /\ a \in named(own) => flagVal[F][a] = LastValue(own, a, pre[F][a])
           /\ a \in above \ named(own) => flagVal[F][a] = pre[F][a]

\* C7 amended: after a successful call, each flag of each visited node's
\* flag-set holds the value given by the last level on the path that holds
\* this flag-set and names the flag, or its value before the call when no
\* such level names it; a node's level is the part of the argument vector
\* that follows the token that selected the node.
C7_FlagSetReadsBackLastPrefixOnPath ==
  (pc = "done" /\ ret.err.kind = Nil) =>
    /\ \A i \in 2..Len(visited) :
         LET top == visited[1].args
         IN visited[i].args = SubSeq(top, Len(top) - Len(visited[i].args) + 1, Len(top))
    /\ \A F \in FlagSetsOf(visited) :
         \A a \in DOMAIN FlagDefs[F] :
           flagVal[F][a] = LastValue(AssignedOnPath(F, visited, 1), a, pre[F][a])

C7_Witness ==
  /\ pc = "done"
  /\ ret.err.kind = Nil
  /\ visited[1].args = <<"--verbose", "deploy", "status", "7">>
  /\ ret.path = <<"root", "deploy", "status", "7">>
  /\ ~pre["F1"].verbose
  /\ flagVal["F1"].verbose
  /\ flagVal["F2"] = pre["F2"]

\* C8: two renderings of the same node at the same width, with no flag
\* changed in between, are identical.
C8_RenderingDeterministic ==
  render.pc = "second" => render.second = render.first

\* the longest chain of nodes below n, n included
RECURSIVE Height(_)
Height(n) ==
  IF IsLeaf(n) THEN 1
  ELSE 1 + Max({ Height(Tree[n].SubCommands[k]) : k \in DOMAIN Tree[n].SubCommands })

\* C9: a call ends with a path and either no error or one of the three
\* errors; no node is visited twice, each recursive step consumes at least
\* the selecting token, and at most depth + 1 (and at most tokens + 1) nodes
\* are visited.
C9_TerminatesWithPathWithinBounds ==
  /\ pc # "panicked"
  /\ pc = "done" =>
       /\ ret.path # <<>>
       /\ ret.err.kind \in {Nil, "FlagError", "MissingCommandError", "InvalidCommandError"}
  /\ \A i, j \in 1..Len(visited) : i # j => visited[i].node # visited[j].node
  /\ \A i \in 2..Len(visited) : Len(visited[i].args) < Len(visited[i - 1].args)
  /\ Len(visited) <= Height(Root)
  /\ visited # <<>> => Len(visited) <= Len(visited[1].args) + 1

\* C10: each visited child is the value stored under the key equal to the
\* token that selected it, the path records the child's Name, and so the
\* node names of the path are the root's Name followed by the selecting
\* tokens exactly when every child on the path has a key equal to its Name.
C10_DispatchByKeyPathByName ==
  pc = "done" =>
    LET k == Len(visited)
        tokens == [i \in 1..(k - 1) |-> SelectingToken(visited, i + 1)]
    IN /\ \A i \in 2..k :
            /\ tokens[i - 1] \in DOMAIN Tree[visited[i - 1].node].SubCommands
            /\ visited[i].node = Tree[visited[i - 1].node].SubCommands[tokens[i - 1]]
       /\ SubSeq(ret.path, 1, k) = NamesFrom(visited, 1)
       /\ (SubSeq(ret.path, 1, k) = <<Tree[Root].Name>> \o tokens)
            <=> (\A i \in 2..k : tokens[i - 1] = Tree[visited[i].node].Name)

C10_Witness ==
  /\ pc = "done"
  /\ visited[1].args = <<"up", "7">>
  /\ ret.path = <<"root", "update", "7">>

====
